---- MODULE Spec2Model ----
(***************************************************************************)
(* A model of agent_mesh: the subprocess executor (runners/base.py), the   *)
(* three agent adapters (runners/claude.py, codex.py, gemini.py) and the   *)
(* dispatcher run_agent.                                                    *)
(*                                                                         *)
(* One call of run_agent is followed from the dispatch to the AgentResult. *)
(* The child process, its two pipes and the clock are the environment; the *)
(* two read_stream tasks, proc.wait(), the wait_for timer and the adapter  *)
(* code after the executor are the program.                                *)
(***************************************************************************)
EXTENDS Integers, Sequences, FiniteSets, TLC

(***************************************************************************)
(* Bounds of the model.                                                    *)
(***************************************************************************)
\* Units a pipe holds before a write blocks (the kernel's pipe buffer).
PipeCap == 1
\* Units one stream.read(8192) returns at most (8192 bytes, scaled down).
ReadSize == 1
\* Units the child writes to stderr at most.
MaxErr == 2
\* Largest timeout_s of a call, in clock ticks.
MaxTimeout == 2
\* The clock stops advancing here.
MaxClock == 3
\* The teardown delay the specification calls bounded, in clock ticks.
TeardownGrace == 1
\* max_stdout and max_raw (2000 characters), scaled down: a line of the model
\* counts as one character.
MaxChars == 1
\* The 200 characters run_smoke keeps of a stderr, scaled down likewise.
SmokeStderrMax == 1

Streams == {"stdout", "stderr"}

Min(a, b) == IF a < b THEN a ELSE b

RECURSIVE Join(_)
\* b"".join(chunks)
Join(cs) == IF cs = <<>> THEN <<>> ELSE Head(cs) \o Join(Tail(cs))

\* sub in str
Contains(str, sub) ==
    \E i \in 1..(Len(str) - Len(sub) + 1) : SubSeq(str, i, i + Len(sub) - 1) = sub

IsPrefix(s, t) == Len(s) <= Len(t) /\ SubSeq(t, 1, Len(s)) = s

(***************************************************************************)
(* JSON values, as json.loads returns them.                                *)
(***************************************************************************)
JObj(f) == [t |-> "object", v |-> f]
JNum(n) == [t |-> "number", v |-> n]
JStr(s) == [t |-> "string", v |-> s]
JBool(b) == [t |-> "bool", v |-> b]
\* A str kept as its lines, so that it has a length: a slice of the captured
\* text, or a JSON string of more than one line.
JText(text) == [t |-> "text", v |-> text]
JSONDecodeError == [t |-> "JSONDecodeError", v |-> 0]

IsDict(x) == x.t = "object"
\* `key in data` for a dict; the caller checks IsDict first.
HasKey(x, k) == k \in DOMAIN x.v
\* Python truthiness of a JSON value.
Truthy(x) ==
    CASE x.t = "bool" -> x.v
      [] x.t = "number" -> x.v # 0
      [] x.t = "string" -> x.v # ""
      [] x.t = "text" -> x.v # <<>>
      [] x.t = "object" -> DOMAIN x.v # {}
      [] OTHER -> FALSE

(***************************************************************************)
(* The lines a child prints in this model, and what json.loads makes of    *)
(* each.                                                                   *)
(***************************************************************************)
LResult == "{\"result\":\"4\",\"usage\":{\"input_tokens\":10,\"output_tokens\":1}}"
LIsError == "{\"is_error\":true,\"result\":\"boom\"}"
LNoError == "{\"is_error\":false,\"result\":\"fine\",\"session_id\":\"abc\"}"
LLongResult == "{\"result\":\"line one\\nline two\"}"
LUsageNum == "{\"usage\":5}"
LEvent == "{\"type\":\"thread.started\"}"
LMsgParis == "{\"type\":\"item.completed\",\"item\":{\"type\":\"agent_message\",\"text\":\"Paris\"}}"
LMsgRome == "{\"type\":\"item.completed\",\"item\":{\"type\":\"agent_message\",\"text\":\"Rome\"}}"
LErrEvent == "{\"type\":\"error\",\"error\":\"rate limit\"}"
LResponse == "{\"response\":\"20\",\"stats\":{\"inputTokens\":3,\"outputTokens\":1}}"
LNumber == "5"
LGarbage == "{\"type\":\"item.comp"
LBlank == " "

Lines ==
    {LResult, LIsError, LNoError, LLongResult, LUsageNum, LEvent, LMsgParis, LMsgRome,
     LErrEvent, LResponse, LNumber, LGarbage, LBlank}

\* json.loads(line) for one line of Lines.
JsonLoadsLine(line) ==
    CASE line = LResult ->
           JObj([result |-> JStr("4"),
                 usage |-> JObj([input_tokens |-> JNum(10), output_tokens |-> JNum(1)])])
      [] line = LIsError -> JObj([is_error |-> JBool(TRUE), result |-> JStr("boom")])
      [] line = LNoError ->
           JObj([is_error |-> JBool(FALSE), result |-> JStr("fine"),
                 session_id |-> JStr("abc")])
      [] line = LLongResult -> JObj([result |-> JText(<<"line one", "line two">>)])
      [] line = LUsageNum -> JObj([usage |-> JNum(5)])
      [] line = LEvent -> JObj([type |-> JStr("thread.started")])
      [] line = LMsgParis ->
           JObj([type |-> JStr("item.completed"),
                 item |-> JObj([type |-> JStr("agent_message"), text |-> JStr("Paris")])])
      [] line = LMsgRome ->
           JObj([type |-> JStr("item.completed"),
                 item |-> JObj([type |-> JStr("agent_message"), text |-> JStr("Rome")])])
      [] line = LErrEvent -> JObj([type |-> JStr("error"), error |-> JStr("rate limit")])
      [] line = LResponse ->
           JObj([response |-> JStr("20"),
                 stats |-> JObj([inputTokens |-> JNum(3), outputTokens |-> JNum(1)])])
      [] line = LNumber -> JNum(5)
      [] OTHER -> JSONDecodeError

\* line.strip() is empty.
IsBlankLine(line) == line = LBlank

\* The lines of a text that are not blank.
NonBlank(text) == SelectSeq(text, LAMBDA l : ~IsBlankLine(l))

\* stdout.strip() is empty.
IsBlank(text) == NonBlank(text) = <<>>

\* json.loads(stdout) of a whole text: one JSON value with blank space around
\* it parses, anything else (a second value, a broken line) does not.
JsonLoads(text) ==
    IF Len(NonBlank(text)) = 1 THEN JsonLoadsLine(NonBlank(text)[1]) ELSE JSONDecodeError

\* What a child may print on stdout: texts of at most three lines.
Docs ==
    {<<>>, <<LResult>>, <<LIsError>>, <<LNoError>>, <<LLongResult>>, <<LUsageNum>>, <<LResponse>>,
     <<LErrEvent>>, <<LNumber>>, <<LGarbage>>, <<LBlank>>,
     <<LEvent, LMsgParis>>, <<LMsgParis, LMsgRome>>, <<LMsgParis, LGarbage>>,
     <<LEvent, LNumber>>, <<LEvent, LMsgParis, LGarbage>>}

\* What a child may print on stderr: the first n of its diagnostic lines.
ErrText(n) == [k \in 1..n |-> "warning " \o ToString(k)]

\* What the child of one call does: the text it writes to each stream before
\* it exits (nothing or MaxErr lines on stderr), and whether a descendant
\* inherits its pipes and keeps them open after the child itself has exited.
Plans ==
    {[stdout |-> d, stderr |-> ErrText(n), detach |-> b] :
        d \in Docs, n \in {0, MaxErr}, b \in BOOLEAN}

\* The statuses a child ends with by itself: exit(0), exit(1), and death by
\* signal 1 (SIGHUP), which asyncio reports as returncode -1.
ExitStatuses == {0, 1, -1}

\* proc.returncode of a child killed by proc.kill() (SIGKILL).
KilledStatus == -9

\* KnownAgents with the name compared without regard to case.
KnownAgentsAnyCase == {"claude", "codex", "gemini", "Claude"}

\* The names run_agent dispatches on, compared with ==.
KnownAgents == {"claude", "codex", "gemini"}
\* The names a caller may pass: the three, a name of no agent, and one of the
\* three in another case.
AgentNames == KnownAgents \cup {"nonexistent", "Claude"}

\* How a call comes in: through run_agent, or through one of the MCP tools
\* claude_run, codex_exec and gemini_run, which call their adapter directly.
EntryPoints == {"run_agent", "mcp"}

\* The working directories a caller may ask for: the default, relative one and
\* an absolute one.
Paths == {".", "/work"}

\* The current directory of the process that serves the call.
ProcessCwd == "/srv/app"

\* str(Path(cwd).resolve()): a relative path is resolved against the current
\* directory of the process, an absolute one stays.
Resolve(path) == IF path = "." THEN ProcessCwd ELSE path

\* os.path.isabs
IsAbs(path) == path # "."

\* Why create_subprocess_exec cannot start the child.
LaunchFaults ==
    {"executable missing", "executable not permitted", "cwd missing",
     "cwd not a directory", "embedded null byte"}

VARIABLES
    via,          \* the entry point of the call: "run_agent", "mcp" or "adapter"
    agent,        \* the agent named: run_agent's agent argument, or the MCP tool's agent
    cwd,          \* the working directory the caller asked for
    timeout_s,    \* the timeout_s argument
    prompt,       \* the prompt (for Codex, the task) argument
    options,      \* the keyword options the adapter is called with
    environ,      \* os.environ of the process that serves the call
    alive,        \* how many agent children started so far are running
    cmd,          \* the argv handed to create_subprocess_exec (<<>> before)
    overrides,    \* run_subprocess's env argument: <<>> is None, <<dict>> a dict
    child_env,    \* the env handed to create_subprocess_exec (<<>> before)
    executorCalls, \* how many times run_subprocess has been called
    children,     \* how many child processes create_subprocess_exec has started
    child_cwd,    \* the directory the child was started in (<<>> for no child)
    pc,           \* where the call is
    how,          \* the path run_subprocess took: "", "launch", "normal", "timeout"
    now,          \* the clock
    started_at,   \* run_subprocess's started_at
    killed_at,    \* the clock when proc.kill() was called
    fault,        \* the launch fault of this call ("" for none)
    plan,         \* what the child does (<<>> before the launch)
    childAlive,   \* the child process is running
    returncode,   \* proc.returncode: <<>> is None, <<n>> is n
    written,      \* per stream, the units the child has written so far
    writeOpen,    \* per stream, some process still holds the write end
    pipe,         \* per stream, the units written and not yet read
    chunks,       \* stdout_chunks and stderr_chunks
    readerDone,   \* per stream, read_stream has seen end-of-stream
    waitDone,     \* the proc.wait() inside the gather has completed
    outcome,      \* what run_subprocess returned: <<>> or <<tuple>>
    raised,       \* the exception that left the call ("" for none)
    result,       \* the AgentResult returned to the caller: <<>> or <<record>>
    caller,       \* the multi-agent caller in charge ("" for none)
    agents,       \* run_smoke's agents argument
    invoked,      \* the agents the caller has invoked so far, in order
    results,      \* the AgentResults the caller has got back, in order
    diff,         \* capture_git_diff's return value: <<>> or <<string>>
    report,       \* what the caller returned: <<>> or <<value>>
    mcp_pc,       \* where check_mcp_server_tools is ("off": not called)
    server,       \* the MCP server process: "none", "running", "exited", "killed"
    stdin_open,   \* proc.stdin of the server is open
    sent,         \* the methods of the requests sent to the server, in order
    server_out,   \* the line the server has written and the check not yet read
    received,     \* the lines the check has read from the server, in order
    check,        \* the McpCheck the check returns: <<>> or <<record>>
    mcp_raised    \* the exception that left the check ("" for none)

vars ==
    <<via, agent, cwd, timeout_s, prompt, options, environ, alive, cmd, overrides, child_env,
      executorCalls, children, child_cwd, pc, how, now, started_at, killed_at, fault, plan, childAlive,
      returncode, written, writeOpen, pipe, chunks, readerDone, waitDone,
      outcome, raised, result, caller, agents, invoked, results, diff, report,
      mcp_pc, server, stdin_open, sent, server_out, received, check, mcp_raised>>

childVars == <<fault, plan, childAlive, returncode, written, writeOpen, pipe>>
readVars == <<chunks, readerDone, waitDone>>
callVars == <<via, agent, cwd, timeout_s, prompt, options>>
launchVars == <<executorCalls, children, child_cwd, cmd, overrides, child_env>>
mcpVars == <<mcp_pc, server, stdin_open, sent, server_out, received, check, mcp_raised>>
sideVars == <<caller, agents, invoked, results, diff, report, mcpVars>>

\* bytes.decode("utf-8", errors="replace") of the joined chunks: the text the
\* units carry, in order.
Decode(units) == [k \in 1..Len(units) |-> units[k].b]

Unit(s, i, text) == [s |-> s, i |-> i, b |-> text]

(***************************************************************************)
(* The options of the adapters, the command lines and the environment.     *)
(***************************************************************************)
\* The keyword defaults of run_claude and run_codex (None is <<>>).
DefaultOptions ==
    [auto_approve |-> TRUE, model |-> <<>>, use_bedrock |-> FALSE,
     aws_profile |-> <<>>, aws_region |-> <<>>, json_events |-> TRUE,
     web_search |-> TRUE]

\* The options a direct caller of an adapter may give.
AllOptions ==
    [auto_approve : BOOLEAN, model : {<<>>, <<"opus">>}, use_bedrock : BOOLEAN,
     aws_profile : {<<>>, <<"dev">>}, aws_region : {<<>>, <<"eu-west-1">>},
     json_events : BOOLEAN, web_search : BOOLEAN]

\* The options each entry point can pass: run_agent passes none, the MCP
\* tool claude_run passes a model, a direct call (run_review_pipeline passes
\* its auto_approve on) may pass any.
OptionsOf(entry) ==
    CASE entry = "run_agent" -> {DefaultOptions}
      [] entry = "mcp" -> {[DefaultOptions EXCEPT !.model = m] : m \in {<<>>, <<"opus">>}}
      [] OTHER -> AllOptions

\* run_claude's cmd.
ClaudeCmd(text, o) ==
    <<"claude", "-p", text, "--output-format", "json">>
        \o (IF o.auto_approve THEN <<"--dangerously-skip-permissions">> ELSE <<>>)

\* run_codex's cmd, with the default model and reasoning effort.
CodexCmd(task, o) ==
    <<"codex", "-m", "gpt-5.2", "-c", "model_reasoning_effort=low">>
        \o (IF o.web_search THEN <<"--enable", "web_search_request">> ELSE <<>>)
        \o <<"exec", "--dangerously-bypass-approvals-and-sandbox", "--skip-git-repo-check">>
        \o (IF o.json_events THEN <<"--json">> ELSE <<>>)
        \o <<task>>

\* run_gemini's cmd.
GeminiCmd(text) == <<"gemini", "--yolo", "--output-format", "json", text>>

\* The cmd the adapter of the named agent builds.
BuildCmd(name, text, o) ==
    CASE name = "claude" -> ClaudeCmd(text, o)
      [] name = "codex" -> CodexCmd(text, o)
      [] OTHER -> GeminiCmd(text)

\* An empty dict of environment variables.
EmptyEnv == [k \in {} |-> ""]

\* The variables every environment of this model has.
BaseEnviron == [PATH |-> "/usr/bin", HOME |-> "/root"]

\* The environments the serving process may run in.
Environs ==
    {BaseEnviron @@ bedrock @@ model @@ region :
        bedrock \in {EmptyEnv, [CLAUDE_CODE_USE_BEDROCK |-> "1"],
                     [CLAUDE_CODE_USE_BEDROCK |-> "0"]},
        model \in {EmptyEnv, [ANTHROPIC_MODEL |-> "haiku"]},
        region \in {EmptyEnv, [AWS_REGION |-> "us-west-2", AWS_PROFILE |-> "prod"]}}

\* os.environ.get(key, default)
EnvGet(env, key, default) == IF key \in DOMAIN env THEN env[key] ELSE default

\* option or fallback, for an option that is None or a str
OrElse(option, fallback) ==
    IF option # <<>> /\ option[1] # "" THEN option[1] ELSE fallback

\* ClaudeBedrockEnv taking any value of the parent's CLAUDE_CODE_USE_BEDROCK
\* as a request for Bedrock.
ClaudeBedrockEnvIfPresent(o, env) ==
    IF o.use_bedrock \/ "CLAUDE_CODE_USE_BEDROCK" \in DOMAIN env
    THEN [CLAUDE_CODE_USE_BEDROCK |-> "1",
          AWS_PROFILE |-> OrElse(o.aws_profile, EnvGet(env, "AWS_PROFILE", "")),
          AWS_REGION |-> OrElse(o.aws_region, EnvGet(env, "AWS_REGION", "us-east-1"))]
    ELSE EmptyEnv

\* The Bedrock block of run_claude's env.
ClaudeBedrockEnv(o, env) ==
    IF o.use_bedrock \/ EnvGet(env, "CLAUDE_CODE_USE_BEDROCK", "") = "1"
    THEN [CLAUDE_CODE_USE_BEDROCK |-> "1",
          AWS_PROFILE |-> OrElse(o.aws_profile, EnvGet(env, "AWS_PROFILE", "")),
          AWS_REGION |-> OrElse(o.aws_region, EnvGet(env, "AWS_REGION", "us-east-1"))]
    ELSE EmptyEnv

\* The model selection of run_claude's env.
ClaudeModelEnv(o) ==
    IF o.model # <<>> /\ o.model[1] # "" THEN [ANTHROPIC_MODEL |-> o.model[1]] ELSE EmptyEnv

\* The variables run_claude passes through when the parent has them.
ClaudePassThrough ==
    {"ANTHROPIC_MODEL", "ANTHROPIC_DEFAULT_HAIKU_MODEL", "ANTHROPIC_DEFAULT_SONNET_MODEL"}

\* run_claude's env dict, as built before the call of run_subprocess.
ClaudeEnv(o, env) ==
    LET set == ClaudeBedrockEnv(o, env) @@ ClaudeModelEnv(o)
    IN  set @@ [k \in (ClaudePassThrough \cap DOMAIN env) \ DOMAIN set |-> env[k]]

\* The env argument of run_subprocess: `env if env else None` for Claude,
\* None (<<>>) for the others.
Overrides(name, o, env) ==
    IF name = "claude" /\ DOMAIN ClaudeEnv(o, env) # {} THEN <<ClaudeEnv(o, env)>> ELSE <<>>

\* FullEnv with the parent's value kept on a key collision.
FullEnvParentWins(env, over) == IF over # <<>> THEN env @@ over[1] ELSE env

\* run_subprocess's full_env: a copy of os.environ, updated with env.
FullEnv(env, over) == IF over # <<>> THEN over[1] @@ env ELSE env

\* os.environ after run_subprocess has built full_env: the copy was
\* updated, os.environ was not.
EnvironAfter(env, over) == env

\* RunConfig(prompt=text): every other field takes its default.
RunConfig(text) ==
    [prompt |-> text, cwd |-> ".", timeout_s |-> 1800, output_format |-> "json",
     env |-> EmptyEnv]

\* The cwd argument the adapter is called with: run_agent resolves the
\* caller's path first, an MCP tool hands it on as it is.
AdapterCwd == IF via = "run_agent" THEN Resolve(cwd) ELSE cwd

\* The state before the call: nothing launched, nothing read, no result.
Fresh ==
    /\ cmd = <<>>
    /\ overrides = <<>>
    /\ child_env = <<>>
    /\ executorCalls = 0
    /\ children = 0
    /\ child_cwd = <<>>
    /\ pc = "dispatch"
    /\ how = ""
    /\ now = 0
    /\ started_at = 0
    /\ killed_at = 0
    /\ fault = ""
    /\ plan = <<>>
    /\ childAlive = FALSE
    /\ returncode = <<>>
    /\ written = [s \in Streams |-> <<>>]
    /\ writeOpen = [s \in Streams |-> FALSE]
    /\ pipe = [s \in Streams |-> <<>>]
    /\ chunks = [s \in Streams |-> <<>>]
    /\ readerDone = [s \in Streams |-> FALSE]
    /\ waitDone = FALSE
    /\ outcome = <<>>
    /\ raised = ""
    /\ result = <<>>

\* No multi-agent caller is in charge: the call is the whole run.
NoCaller ==
    /\ caller = ""
    /\ agents = <<>>
    /\ invoked = <<>>
    /\ results = <<>>
    /\ diff = <<>>
    /\ report = <<>>

\* check_mcp_server_tools is not called.
NoMcp ==
    /\ mcp_pc = "off"
    /\ server = "none"
    /\ stdin_open = FALSE
    /\ sent = <<>>
    /\ server_out = <<>>
    /\ received = <<>>
    /\ check = <<>>
    /\ mcp_raised = ""

Init ==
    /\ via \in EntryPoints
    /\ agent \in AgentNames
    /\ via = "mcp" => agent \in KnownAgents
    /\ cwd \in Paths
    /\ timeout_s \in 1..MaxTimeout
    /\ prompt = "hi"
    /\ options = DefaultOptions
    /\ environ = BaseEnviron
    /\ alive = 0
    /\ Fresh
    /\ NoCaller
    /\ NoMcp

(***************************************************************************)
(* run_subprocess: the launch.                                             *)
(***************************************************************************)
\* The exception create_subprocess_exec raises for a launch fault: the child
\* reports the errno of its failed chdir or exec, and OSError picks the
\* subclass by errno (ENOENT, EACCES, ENOTDIR); a NUL byte in an argument is
\* a ValueError.
LaunchException(f) ==
    CASE f = "executable missing" -> "FileNotFoundError"
      [] f = "cwd missing" -> "FileNotFoundError"
      [] f = "executable not permitted" -> "PermissionError"
      [] f = "cwd not a directory" -> "NotADirectoryError"
      [] OTHER -> "ValueError"

\* The except clauses of the launch, in order.
LaunchFailureOutcome(exc, t0, t1) ==
    CASE exc = "FileNotFoundError" ->
           [exit_code |-> 127, stdout |-> <<>>,
            stderr |-> <<"Command not found: " \o exc>>,
            started_at |-> t0, ended_at |-> t1]
      [] exc = "PermissionError" ->
           [exit_code |-> 126, stdout |-> <<>>,
            stderr |-> <<"Permission denied: " \o exc>>,
            started_at |-> t0, ended_at |-> t1]
      [] exc = "NotADirectoryError" ->
           [exit_code |-> 1, stdout |-> <<>>,
            stderr |-> <<"Invalid working directory: " \o exc>>,
            started_at |-> t0, ended_at |-> t1]
      [] OTHER ->
           [exit_code |-> 1, stdout |-> <<>>,
            stderr |-> <<"Failed to start subprocess: " \o exc>>,
            started_at |-> t0, ended_at |-> t1]

\* create_subprocess_exec raises: the except clause returns the outcome.
LaunchFail(f) ==
    /\ pc = "dispatch"
    /\ agent \in KnownAgents
    /\ pc' = "returned"
    /\ how' = "launch"
    /\ fault' = f
    /\ started_at' = now
    /\ outcome' = <<LaunchFailureOutcome(LaunchException(f), now, now)>>
    /\ executorCalls' = executorCalls + 1
    /\ cmd' = BuildCmd(agent, prompt, options)
    /\ overrides' = Overrides(agent, options, environ)
    /\ child_env' = <<FullEnv(environ, overrides')>>
    /\ environ' = EnvironAfter(environ, overrides')
    /\ UNCHANGED <<callVars, sideVars, alive, children, child_cwd, now, killed_at,
                   plan, childAlive, returncode, written, writeOpen, pipe,
                   readVars, raised, result>>

\* create_subprocess_exec returns: the child runs with both pipes open, and
\* the gather of the two readers and proc.wait() starts under wait_for.
Launch(p) ==
    /\ pc = "dispatch"
    /\ agent \in KnownAgents
    /\ pc' = "waiting"
    /\ plan' = <<p>>
    /\ started_at' = now
    /\ childAlive' = TRUE
    /\ writeOpen' = [s \in Streams |-> TRUE]
    /\ executorCalls' = executorCalls + 1
    /\ children' = children + 1
    /\ child_cwd' = <<Resolve(AdapterCwd)>>
    /\ cmd' = BuildCmd(agent, prompt, options)
    /\ overrides' = Overrides(agent, options, environ)
    /\ child_env' = <<FullEnv(environ, overrides')>>
    /\ environ' = EnvironAfter(environ, overrides')
    /\ alive' = alive + 1
    /\ UNCHANGED <<callVars, sideVars, how, now, killed_at, fault, returncode,
                   written, pipe, readVars, outcome, raised, result>>

(***************************************************************************)
(* The child and its pipes.                                                *)
(***************************************************************************)
\* run_subprocess is awaiting: the model follows the child, the pipes and the
\* clock for as long as the call does.
InCall == pc \in {"waiting", "killing"}

\* The child writes the next unit of a stream; a full pipe blocks the write.
ChildWrite(s) ==
    /\ InCall
    /\ childAlive
    /\ Len(written[s]) < Len(plan[1][s])
    /\ Len(pipe[s]) < PipeCap
    /\ LET u == Unit(s, Len(written[s]) + 1, plan[1][s][Len(written[s]) + 1])
       IN /\ written' = [written EXCEPT ![s] = Append(@, u)]
          /\ pipe' = [pipe EXCEPT ![s] = Append(@, u)]
    /\ UNCHANGED <<callVars, sideVars, environ, alive, launchVars, pc, how, now, started_at, killed_at, fault, plan,
                   childAlive, returncode, writeOpen, readVars, outcome,
                   raised, result>>

\* The child has written everything and ends with a status of its own; its
\* write ends close unless a descendant holds them.
ChildExit(status) ==
    /\ InCall
    /\ childAlive
    /\ \A s \in Streams : Len(written[s]) = Len(plan[1][s])
    /\ childAlive' = FALSE
    /\ returncode' = <<status>>
    /\ writeOpen' = [s \in Streams |-> plan[1].detach]
    /\ alive' = alive - 1
    /\ UNCHANGED <<callVars, sideVars, environ, launchVars, pc, how, now, started_at, killed_at, fault, plan,
                   written, pipe, readVars, outcome, raised, result>>

\* SIGKILL takes effect: the child is gone, whatever it had left to write.
ChildKilled ==
    /\ pc = "killing"
    /\ childAlive
    /\ childAlive' = FALSE
    /\ returncode' = <<KilledStatus>>
    /\ writeOpen' = [s \in Streams |-> plan[1].detach]
    /\ alive' = alive - 1
    /\ UNCHANGED <<callVars, sideVars, environ, launchVars, pc, how, now, started_at, killed_at, fault, plan,
                   written, pipe, readVars, outcome, raised, result>>

\* The descendant holding a write end closes it (followed while a reader may
\* still see the end-of-stream).
HolderClose(s) ==
    /\ pc = "waiting"
    /\ ~childAlive
    /\ writeOpen[s]
    /\ writeOpen' = [writeOpen EXCEPT ![s] = FALSE]
    /\ UNCHANGED <<callVars, sideVars, environ, alive, launchVars, pc, how, now, started_at, killed_at, fault, plan,
                   childAlive, returncode, written, pipe, readVars, outcome,
                   raised, result>>

\* Time passes while the call awaits. The wait_for timer is not late by a
\* whole tick: once the deadline is reached the clock advances again only
\* after the call has left the combined wait.
Tick ==
    /\ InCall
    /\ pc = "waiting" => now - started_at < timeout_s
    /\ now < MaxClock
    /\ now' = now + 1
    /\ UNCHANGED <<callVars, sideVars, environ, alive, launchVars, pc, how, started_at, killed_at, childVars,
                   readVars, outcome, raised, result>>

(***************************************************************************)
(* run_subprocess: the combined wait under wait_for.                       *)
(***************************************************************************)
\* ReadChunk with each chunk appended twice.
ReadChunkTwice(s, n) ==
    /\ pc = "waiting"
    /\ ~readerDone[s]
    /\ n \in 1..Min(ReadSize, Len(pipe[s]))
    /\ chunks' = [chunks EXCEPT ![s] = Append(Append(@, SubSeq(pipe[s], 1, n)),
                                              SubSeq(pipe[s], 1, n))]
    /\ pipe' = [pipe EXCEPT ![s] = SubSeq(@, n + 1, Len(@))]
    /\ UNCHANGED <<callVars, sideVars, environ, alive, launchVars, pc, how, now, started_at, killed_at, fault, plan,
                   childAlive, returncode, written, writeOpen, readerDone,
                   waitDone, outcome, raised, result>>

\* ReadChunk with the streams read one after the other: stderr is read only
\* once stdout has reached end-of-stream.
ReadChunkAfterStdout(s, n) ==
    /\ pc = "waiting"
    /\ ~readerDone[s]
    /\ s = "stderr" => readerDone["stdout"]
    /\ n \in 1..Min(ReadSize, Len(pipe[s]))
    /\ chunks' = [chunks EXCEPT ![s] = Append(@, SubSeq(pipe[s], 1, n))]
    /\ pipe' = [pipe EXCEPT ![s] = SubSeq(@, n + 1, Len(@))]
    /\ UNCHANGED <<callVars, sideVars, environ, alive, launchVars, pc, how, now, started_at, killed_at, fault, plan,
                   childAlive, returncode, written, writeOpen, readerDone,
                   waitDone, outcome, raised, result>>

\* ReadChunk with one list shared by the two readers.
ReadChunkShared(s, n) ==
    /\ pc = "waiting"
    /\ ~readerDone[s]
    /\ n \in 1..Min(ReadSize, Len(pipe[s]))
    /\ chunks' = [chunks EXCEPT !["stdout"] = Append(@, SubSeq(pipe[s], 1, n))]
    /\ pipe' = [pipe EXCEPT ![s] = SubSeq(@, n + 1, Len(@))]
    /\ UNCHANGED <<callVars, sideVars, environ, alive, launchVars, pc, how, now, started_at, killed_at, fault, plan,
                   childAlive, returncode, written, writeOpen, readerDone,
                   waitDone, outcome, raised, result>>

\* read_stream: stream.read(8192) returns between one unit and ReadSize
\* units of what the pipe holds, and the chunk is appended to the stream's
\* own list.
ReadChunk(s, n) ==
    /\ pc = "waiting"
    /\ ~readerDone[s]
    /\ n \in 1..Min(ReadSize, Len(pipe[s]))
    /\ chunks' = [chunks EXCEPT ![s] = Append(@, SubSeq(pipe[s], 1, n))]
    /\ pipe' = [pipe EXCEPT ![s] = SubSeq(@, n + 1, Len(@))]
    /\ UNCHANGED <<callVars, sideVars, environ, alive, launchVars, pc, how, now, started_at, killed_at, fault, plan,
                   childAlive, returncode, written, writeOpen, readerDone,
                   waitDone, outcome, raised, result>>

\* read_stream: stream.read returns b"" (the pipe is drained and every write
\* end is closed) and the reader ends.
ReadEOF(s) ==
    /\ pc = "waiting"
    /\ ~readerDone[s]
    /\ pipe[s] = <<>>
    /\ ~writeOpen[s]
    /\ readerDone' = [readerDone EXCEPT ![s] = TRUE]
    /\ UNCHANGED <<callVars, sideVars, environ, alive, launchVars, pc, how, now, started_at, killed_at, childVars,
                   chunks, waitDone, outcome, raised, result>>

\* The proc.wait() of the gather completes once the child has exited.
WaitExit ==
    /\ pc = "waiting"
    /\ ~waitDone
    /\ ~childAlive
    /\ waitDone' = TRUE
    /\ UNCHANGED <<callVars, sideVars, environ, alive, launchVars, pc, how, now, started_at, killed_at, childVars,
                   chunks, readerDone, outcome, raised, result>>

\* GatherDone with only proc.wait() awaited.
GatherDoneOnExit == waitDone

\* asyncio.gather(read_stream(stdout), read_stream(stderr), proc.wait()) is
\* done.
GatherDone == readerDone["stdout"] /\ readerDone["stderr"] /\ waitDone

\* proc.returncode or 0
ReturncodeOr0(rc) == IF rc = <<>> \/ rc[1] = 0 THEN 0 ELSE rc[1]

\* The tuple returned after the gather.
NormalOutcome(rc, out, err, t0, t1) ==
    [exit_code |-> ReturncodeOr0(rc),
     stdout |-> Decode(Join(out)),
     stderr |-> Decode(Join(err)),
     started_at |-> t0, ended_at |-> t1]

\* f"\n\n[TIMEOUT after {timeout_s}s - partial output above]"
TimeoutMsg(t) == "\n\n[TIMEOUT after " \o ToString(t) \o "s - partial output above]"

\* TimeoutOutcome with the buffers dropped, as after a cancelled
\* proc.communicate().
TimeoutOutcomeEmpty(t, out, err, t0, t1) ==
    [exit_code |-> -1,
     stdout |-> <<>>,
     stderr |-> <<TimeoutMsg(t)>>,
     started_at |-> t0, ended_at |-> t1]

\* The tuple returned from the except asyncio.TimeoutError clause.
TimeoutOutcome(t, out, err, t0, t1) ==
    [exit_code |-> -1,
     stdout |-> Decode(Join(out)),
     stderr |-> Append(Decode(Join(err)), TimeoutMsg(t)),
     started_at |-> t0, ended_at |-> t1]

\* wait_for returns: run_subprocess returns the child's status and output.
ReturnNormal ==
    /\ pc = "waiting"
    /\ GatherDone
    /\ pc' = "returned"
    /\ how' = "normal"
    /\ outcome' = <<NormalOutcome(returncode, chunks["stdout"], chunks["stderr"],
                                  started_at, now)>>
    /\ UNCHANGED <<callVars, sideVars, environ, alive, launchVars, now, started_at, killed_at, childVars, readVars,
                   raised, result>>

\* The wait_for deadline passes with the gather still pending: the gather is
\* cancelled, wait_for raises TimeoutError and the handler calls proc.kill().
Timeout ==
    /\ pc = "waiting"
    /\ ~GatherDone
    /\ now - started_at >= timeout_s
    /\ pc' = "killing"
    /\ killed_at' = now
    /\ UNCHANGED <<callVars, sideVars, environ, alive, launchVars, how, now, started_at, childVars, readVars,
                   outcome, raised, result>>

\* ProcWaitReady with the exit of the killed child not awaited.
ProcWaitSkipped == TRUE

\* The await proc.wait() of the timeout handler completes once the child has
\* exited; nothing else ends it.
ProcWaitReady == ~childAlive

\* The timeout handler returns what the readers had appended.
ReturnTimeout ==
    /\ pc = "killing"
    /\ ProcWaitReady
    /\ pc' = "returned"
    /\ how' = "timeout"
    /\ outcome' = <<TimeoutOutcome(timeout_s, chunks["stdout"], chunks["stderr"],
                                   started_at, now)>>
    /\ UNCHANGED <<callVars, sideVars, environ, alive, launchVars, now, started_at, killed_at, childVars, readVars,
                   raised, result>>

\* stream.read raises (the pipe transport fails with an OSError, which the
\* StreamReader re-raises in the reader): the gather fails, wait_for
\* re-raises, and the only except clause is for asyncio.TimeoutError.
StreamFault(s) ==
    /\ pc = "waiting"
    /\ ~readerDone[s]
    /\ pc' = "raised"
    /\ raised' = "OSError"
    /\ UNCHANGED <<callVars, sideVars, environ, alive, launchVars, how, now, started_at, killed_at, childVars,
                   readVars, outcome, result>>

(***************************************************************************)
(* The adapters: what run_claude, run_codex and run_gemini do with the     *)
(* tuple run_subprocess returned.                                          *)
(***************************************************************************)
EmptyDict == [k \in {} |-> 0]

\* f"\n... [truncated {n} chars]"
TruncMarker(n) == <<"\n... [truncated ", ToString(n), " chars]">>

\* Truncate with the marker giving the length of the whole text.
TruncateCountsAll(text) ==
    IF Len(text) > MaxChars
    THEN SubSeq(text, 1, MaxChars) \o TruncMarker(Len(text))
    ELSE text

\* text[:max] and, when the text is longer, the marker appended.
Truncate(text) ==
    IF Len(text) > MaxChars
    THEN SubSeq(text, 1, MaxChars) \o TruncMarker(Len(text) - MaxChars)
    ELSE text

RECURSIVE LStrip(_)
LStrip(text) ==
    IF text # <<>> /\ IsBlankLine(Head(text)) THEN LStrip(Tail(text)) ELSE text

RECURSIVE RStrip(_)
RStrip(text) ==
    IF text # <<>> /\ IsBlankLine(text[Len(text)])
    THEN RStrip(SubSeq(text, 1, Len(text) - 1))
    ELSE text

\* str.strip()
Strip(text) == RStrip(LStrip(text))

\* Usage(): every counter None.
NoUsage == [input_tokens |-> <<>>, output_tokens |-> <<>>, cached_input_tokens |-> <<>>]

\* d.get(key) handed to an `int | None` field: <<>> is None.
GetInt(d, key) == IF HasKey(d, key) THEN <<d.v[key].v>> ELSE <<>>

\* The model validation of an `int | None` field accepts d.get(key).
IntOrNone(d, key) == HasKey(d, key) => d.v[key].t = "number"

\* The keys of `keys` that the dict has, with their values.
Pick(d, keys) == [k \in keys \cap DOMAIN d.v |-> d.v[k]]

\* run_claude, from `structured: dict = {}` to the structured payload, the
\* usage and is_error; exc is the exception that leaves the function.
ClaudeParse(stdout) ==
    LET data == JsonLoads(stdout)
        none == [exc |-> "", structured |-> EmptyDict, usage |-> NoUsage,
                 is_error |-> JBool(FALSE)]
    IN  IF IsBlank(stdout) THEN none
        ELSE IF data = JSONDecodeError
        THEN [none EXCEPT !.structured = [raw_output |-> JText(Truncate(stdout))]]
        ELSE IF ~IsDict(data)
        THEN [none EXCEPT !.exc = "TypeError"]
        ELSE IF HasKey(data, "usage") /\ ~IsDict(data.v.usage)
        THEN [none EXCEPT !.exc = "AttributeError"]
        ELSE IF HasKey(data, "usage")
                /\ \E k \in {"input_tokens", "output_tokens", "cache_read_input_tokens"} :
                      ~IntOrNone(data.v.usage, k)
        THEN [none EXCEPT !.exc = "ValidationError"]
        ELSE [exc |-> "",
              structured |-> Pick(data, {"result", "is_error", "usage"}),
              usage |->
                IF HasKey(data, "usage")
                THEN [input_tokens |-> GetInt(data.v.usage, "input_tokens"),
                      output_tokens |-> GetInt(data.v.usage, "output_tokens"),
                      cached_input_tokens |->
                          GetInt(data.v.usage, "cache_read_input_tokens")]
                ELSE NoUsage,
              is_error |->
                IF HasKey(data, "is_error") THEN data.v.is_error ELSE JBool(FALSE)]

\* ok=exit_code == 0 and not is_error
ClaudeOk(exit_code, is_error) == exit_code = 0 /\ ~Truthy(is_error)

\* The AgentResult an adapter builds.
AgentResult(name, dir, o, ok, structured, usage) ==
    [agent |-> name,
     cwd |-> dir,
     mode |-> "headless",
     ok |-> ok,
     exit_code |-> o.exit_code,
     started_at |-> o.started_at,
     ended_at |-> o.ended_at,
     duration_ms |-> (o.ended_at - o.started_at) * 1000,
     stdout |-> Truncate(o.stdout),
     stderr |-> o.stderr,
     structured |-> structured,
     usage |-> usage]

\* What a call of an adapter ends with: an exception or an AgentResult.
Raise(e) == [exc |-> e, value |-> <<>>]
Return(r) == [exc |-> "", value |-> <<r>>]

run_claude(dir, o) ==
    LET p == ClaudeParse(o.stdout)
    IN  IF p.exc # "" THEN Raise(p.exc)
        ELSE Return(AgentResult("claude", dir, o, ClaudeOk(o.exit_code, p.is_error),
                                p.structured, p.usage))

\* One turn of run_codex's loop over the lines: acc holds response_text
\* (<<>> is None), event_count and the exception that ended the loop.
CodexLine(acc, line) ==
    LET event == JsonLoadsLine(line)
        counted == [acc EXCEPT !.event_count = @ + 1]
        item == IF HasKey(event, "item") THEN event.v.item ELSE JObj(EmptyDict)
    IN  IF acc.exc # "" \/ IsBlankLine(line) \/ event = JSONDecodeError THEN acc
        ELSE IF ~IsDict(event) THEN [counted EXCEPT !.exc = "AttributeError"]
        ELSE IF ~(HasKey(event, "type") /\ event.v.type = JStr("item.completed"))
        THEN counted
        ELSE IF ~IsDict(item) THEN [counted EXCEPT !.exc = "AttributeError"]
        ELSE IF HasKey(item, "type") /\ item.v.type = JStr("agent_message")
                /\ HasKey(item, "text")
        THEN [counted EXCEPT !.response_text = <<item.v.text>>]
        ELSE counted

RECURSIVE CodexLoop(_, _)
\* for line in stdout.strip().split("\n")
CodexLoop(acc, lines) ==
    IF lines = <<>> THEN acc ELSE CodexLoop(CodexLine(acc, Head(lines)), Tail(lines))

\* run_codex, from `structured: dict = {}` to the structured payload.
CodexParse(stdout, json_events) ==
    LET acc == CodexLoop([exc |-> "", response_text |-> <<>>, event_count |-> 0],
                         Strip(stdout))
        count == [event_count |-> JNum(acc.event_count)]
    IN  IF ~json_events \/ IsBlank(stdout)
        THEN [exc |-> "", structured |-> EmptyDict]
        ELSE IF acc.exc # "" THEN [exc |-> acc.exc, structured |-> EmptyDict]
        ELSE IF acc.response_text # <<>> /\ Truthy(acc.response_text[1])
        THEN [exc |-> "",
              structured |-> [response |-> acc.response_text[1],
                              event_count |-> JNum(acc.event_count)]]
        ELSE [exc |-> "", structured |-> count]

\* ok=exit_code == 0
CodexOk(exit_code) == exit_code = 0

run_codex(dir, o) ==
    LET p == CodexParse(o.stdout, options.json_events)
    IN  IF p.exc # "" THEN Raise(p.exc)
        ELSE Return(AgentResult("codex", dir, o, CodexOk(o.exit_code), p.structured, NoUsage))

\* run_gemini, from `structured: dict = {}` to the structured payload, the
\* usage and has_error.
GeminiParse(exit_code, stdout) ==
    LET data == JsonLoads(stdout)
        none == [exc |-> "", structured |-> EmptyDict, usage |-> NoUsage,
                 has_error |-> FALSE]
    IN  IF ~(exit_code = 0 /\ ~IsBlank(stdout)) THEN none
        ELSE IF data = JSONDecodeError
        THEN [none EXCEPT !.structured = [response |-> JText(Truncate(Strip(stdout)))]]
        ELSE IF ~IsDict(data)
        THEN [none EXCEPT !.exc = "TypeError"]
        ELSE IF HasKey(data, "stats") /\ ~IsDict(data.v.stats)
        THEN [none EXCEPT !.exc = "AttributeError"]
        ELSE IF HasKey(data, "stats")
                /\ \E k \in {"inputTokens", "outputTokens"} : ~IntOrNone(data.v.stats, k)
        THEN [none EXCEPT !.exc = "ValidationError"]
        ELSE [exc |-> "",
              structured |-> Pick(data, {"response", "error", "stats"}),
              usage |->
                IF HasKey(data, "stats")
                THEN [input_tokens |-> GetInt(data.v.stats, "inputTokens"),
                      output_tokens |-> GetInt(data.v.stats, "outputTokens"),
                      cached_input_tokens |-> <<>>]
                ELSE NoUsage,
              has_error |-> HasKey(data, "error")]

\* GeminiOk with the exit code left out.
GeminiOkErrorOnly(exit_code, has_error) == ~has_error

\* ok=(exit_code == 0 and not has_error)
GeminiOk(exit_code, has_error) == exit_code = 0 /\ ~has_error

run_gemini(dir, o) ==
    LET p == GeminiParse(o.exit_code, o.stdout)
    IN  IF p.exc # "" THEN Raise(p.exc)
        ELSE Return(AgentResult("gemini", dir, o, GeminiOk(o.exit_code, p.has_error),
                                p.structured, p.usage))

(***************************************************************************)
(* run_agent: the dispatch, and the return of the adapter it chose.        *)
(***************************************************************************)
\* The result for a name that is none of the three.
UnknownAgentResult(name, dir, t) ==
    [agent |-> "unknown",
     cwd |-> dir,
     mode |-> "headless",
     ok |-> FALSE,
     exit_code |-> 1,
     started_at |-> t,
     ended_at |-> t,
     duration_ms |-> 0,
     stdout |-> <<>>,
     stderr |-> <<"Unknown agent: " \o name \o ". Must be claude, codex, or gemini.">>,
     structured |-> EmptyDict,
     usage |-> NoUsage]

\* The else branch of run_agent: no adapter and no child.
RunAgentUnknown ==
    /\ pc = "dispatch"
    /\ agent \notin KnownAgents
    /\ pc' = "done"
    /\ result' = <<UnknownAgentResult(agent, Resolve(cwd), now)>>
    /\ UNCHANGED <<callVars, sideVars, environ, alive, launchVars, how, now, started_at, killed_at, childVars,
                   readVars, outcome, raised>>

\* The adapter run_agent dispatched to, applied to the executor's tuple.
Adapter(name, dir, o) ==
    CASE name = "claude" -> run_claude(dir, o)
      [] name = "codex" -> run_codex(dir, o)
      [] OTHER -> run_gemini(dir, o)

\* AdapterReturn with one retry: a first attempt that ended with a non-zero
\* exit code is thrown away and the executor is called again.
AdapterReturnRetry ==
    /\ pc = "returned"
    /\ IF outcome[1].exit_code # 0 /\ executorCalls < 2
       THEN /\ pc' = "dispatch"
            /\ how' = ""
            /\ fault' = ""
            /\ plan' = <<>>
            /\ childAlive' = FALSE
            /\ returncode' = <<>>
            /\ written' = [s \in Streams |-> <<>>]
            /\ writeOpen' = [s \in Streams |-> FALSE]
            /\ pipe' = [s \in Streams |-> <<>>]
            /\ chunks' = [s \in Streams |-> <<>>]
            /\ readerDone' = [s \in Streams |-> FALSE]
            /\ waitDone' = FALSE
            /\ outcome' = <<>>
            /\ UNCHANGED <<raised, result>>
       ELSE /\ LET r == Adapter(agent, AdapterCwd, outcome[1])
               IN /\ pc' = IF r.exc = "" THEN "done" ELSE "raised"
                  /\ raised' = r.exc
                  /\ result' = r.value
            /\ UNCHANGED <<how, childVars, readVars, outcome>>
    /\ UNCHANGED <<callVars, sideVars, environ, alive, launchVars, now, started_at, killed_at>>

\* The adapter parses the tuple and returns its AgentResult, or an exception
\* of the parsing leaves it (and run_agent, which catches nothing).
AdapterReturn ==
    /\ pc = "returned"
    /\ LET r == Adapter(agent, AdapterCwd, outcome[1])
       IN /\ pc' = IF r.exc = "" THEN "done" ELSE "raised"
          /\ raised' = r.exc
          /\ result' = r.value
    /\ UNCHANGED <<callVars, sideVars, environ, alive, launchVars, how, now, started_at, killed_at, childVars,
                   readVars, outcome>>

Next ==
    \/ \E f \in LaunchFaults : LaunchFail(f)
    \/ \E p \in Plans : Launch(p)
    \/ \E s \in Streams : ChildWrite(s)
    \/ \E st \in ExitStatuses : ChildExit(st)
    \/ ChildKilled
    \/ \E s \in Streams : HolderClose(s)
    \/ Tick
    \/ \E s \in Streams, n \in 1..ReadSize : ReadChunk(s, n)
    \/ \E s \in Streams : ReadEOF(s)
    \/ WaitExit
    \/ ReturnNormal
    \/ Timeout
    \/ ReturnTimeout
    \/ \E s \in Streams : StreamFault(s)
    \/ RunAgentUnknown
    \/ AdapterReturn

Spec == Init /\ [][Next]_vars

\* The event loop runs a reader whose pipe has data or is at end-of-stream,
\* completes proc.wait() once the child has exited and resumes the caller of
\* a finished gather; the operating system lets a child that can write or
\* exit do so. Nothing forces the clock, the timer, a fault or a descendant.
Fairness ==
    /\ \A s \in Streams :
          /\ WF_vars(ChildWrite(s))
          /\ WF_vars(\E n \in 1..ReadSize : ReadChunk(s, n))
          /\ WF_vars(ReadEOF(s))
    /\ WF_vars(\E st \in ExitStatuses : ChildExit(st))
    /\ WF_vars(WaitExit)
    /\ WF_vars(ReturnNormal)

\* The combined wait reads neither the entry point nor the directory: the
\* fair behaviours followed are those of calls through run_agent in the
\* default directory.
FairInit == Init /\ via = "run_agent" /\ cwd = "."

FairSpec == FairInit /\ [][Next]_vars /\ Fairness

(***************************************************************************)
(* The adapters under every option: the calls that run_agent, the MCP      *)
(* tools and a direct caller can make, in every environment, followed up   *)
(* to the launch.                                                          *)
(***************************************************************************)
OptionInit ==
    /\ via \in EntryPoints \cup {"adapter"}
    /\ agent \in AgentNames
    /\ via # "run_agent" => agent \in KnownAgents
    /\ cwd = "."
    /\ timeout_s = 1
    /\ prompt = "hi"
    /\ options \in OptionsOf(via)
    /\ environ \in Environs
    /\ alive = 0
    /\ Fresh
    /\ NoCaller
    /\ NoMcp

OptionNext ==
    \/ \E f \in LaunchFaults : LaunchFail(f)
    \/ \E p \in Plans : Launch(p)
    \/ RunAgentUnknown

OptionSpec == OptionInit /\ [][OptionNext]_vars

(***************************************************************************)
(* The callers that invoke several agents: run_smoke and                   *)
(* run_review_pipeline. Each invocation is a call of the machine above;    *)
(* the clock of a call counts from the moment the call is made.            *)
(***************************************************************************)
Callers == {"run_smoke", "run_review_pipeline"}

\* The agents arguments of run_smoke.
AgentLists ==
    {<<"claude", "codex">>, <<"codex", "gemini">>, <<"gemini", "claude">>,
     <<"nonexistent", "claude">>, <<"codex", "codex">>}

SmokePrompt == "What is 2+2? Reply with just: 4"

\* What the children of these runs do: an answer of Claude, one with a
\* descendant that keeps the pipes, an error report with diagnostics, a
\* usage that is not an object, and the events of Codex.
CallerPlans ==
    {[stdout |-> <<LResult>>, stderr |-> ErrText(0), detach |-> FALSE],
     [stdout |-> <<LResult>>, stderr |-> ErrText(0), detach |-> TRUE],
     [stdout |-> <<LIsError>>, stderr |-> ErrText(MaxErr), detach |-> FALSE],
     [stdout |-> <<LUsageNum>>, stderr |-> ErrText(0), detach |-> FALSE],
     [stdout |-> <<LEvent, LMsgParis>>, stderr |-> ErrText(0), detach |-> FALSE]}

\* What capture_git_diff may return: "" outside a repository or with
\* nothing changed, else the diff text.
Diffs == {"", "diff --git a/f b/f\n+++ b/f\n+x = 1 "}

\* The caller awaits an adapter: a new call starts.
Invoke(name, text, o) ==
    /\ agent' = name
    /\ prompt' = text
    /\ options' = o
    /\ invoked' = Append(invoked, name)
    /\ cmd' = <<>>
    /\ overrides' = <<>>
    /\ child_env' = <<>>
    /\ executorCalls' = 0
    /\ children' = 0
    /\ child_cwd' = <<>>
    /\ pc' = "dispatch"
    /\ how' = ""
    /\ now' = 0
    /\ started_at' = 0
    /\ killed_at' = 0
    /\ fault' = ""
    /\ plan' = <<>>
    /\ childAlive' = FALSE
    /\ returncode' = <<>>
    /\ written' = [s \in Streams |-> <<>>]
    /\ writeOpen' = [s \in Streams |-> FALSE]
    /\ pipe' = [s \in Streams |-> <<>>]
    /\ chunks' = [s \in Streams |-> <<>>]
    /\ readerDone' = [s \in Streams |-> FALSE]
    /\ waitDone' = FALSE
    /\ outcome' = <<>>
    /\ raised' = ""
    /\ result' = <<>>
    /\ UNCHANGED <<via, cwd, timeout_s, environ, alive, mcpVars>>

\* v.strip() of a str value.
StrStrip(v) ==
    IF v.t = "text" THEN JText(Strip(v.v))
    ELSE IF IsBlankLine(v.v) THEN JStr("") ELSE v

\* isinstance(v, str) and v.strip()
IsNonBlankStr(v) == v.t \in {"string", "text"} /\ Truthy(StrStrip(v))

RECURSIVE FirstText(_, _)
\* The first of the keys whose value is a non-blank str, stripped; None
\* (<<>>) when there is none.
FirstText(s, keys) ==
    IF keys = <<>> THEN <<>>
    ELSE IF Head(keys) \in DOMAIN s /\ IsNonBlankStr(s[Head(keys)])
    THEN <<StrStrip(s[Head(keys)])>>
    ELSE FirstText(s, Tail(keys))

\* _extract_response_text; the structured payload of Gemini never has
\* "candidates" (gemini.py 40-52), so that branch ends with None.
ExtractResponseText(r) ==
    CASE r.agent = "codex" ->
           IF "response" \in DOMAIN r.structured
              /\ r.structured.response.t \in {"string", "text"}
           THEN <<StrStrip(r.structured.response)>> ELSE <<>>
      [] r.agent = "claude" ->
           FirstText(r.structured, <<"result", "output", "response", "text">>)
      [] r.agent = "gemini" -> FirstText(r.structured, <<"response", "text">>)
      [] OTHER -> <<>>

\* text[:n]
Take(text, n) == IF Len(text) > n THEN SubSeq(text, 1, n) ELSE text

\* The entry run_smoke keeps of one result.
SmokeEntry(r) ==
    [ok |-> r.ok,
     exit_code |-> r.exit_code,
     duration_ms |-> r.duration_ms,
     response |-> ExtractResponseText(r),
     stderr |-> IF ~r.ok THEN Take(Strip(r.stderr), SmokeStderrMax) ELSE <<>>]

\* run_smoke's results dict after the given results: one entry per name,
\* a later result of the same name replacing the earlier.
SmokeResults(rs) ==
    [name \in {agents[k] : k \in 1..Len(rs)} |->
        SmokeEntry(rs[CHOOSE k \in 1..Len(rs) :
                        /\ agents[k] = name
                        /\ \A j \in (k + 1)..Len(rs) : agents[j] # name])]

\* run_agent has returned to run_smoke: the entry is stored and the loop
\* goes on to the next agent, or run_smoke returns.
SmokeCollect ==
    /\ caller = "run_smoke"
    /\ pc = "done"
    /\ Len(results) < Len(invoked)
    /\ results' = Append(results, result[1])
    /\ IF Len(invoked) < Len(agents)
       THEN /\ Invoke(agents[Len(invoked) + 1], prompt, options)
            /\ UNCHANGED <<caller, agents, diff, report>>
       ELSE /\ report' = <<SmokeResults(results')>>
            /\ UNCHANGED <<callVars, mcpVars, environ, alive, launchVars, pc, how, now, started_at,
                           killed_at, childVars, readVars, outcome, raised, result,
                           caller, agents, invoked, diff>>

\* The fence of the Markdown code block around the diff. The source writes it
\* with three backquotes; a TLA+ string cannot hold a backquote, so the model
\* writes the fence with tildes.
Fence == "~~~"

\* review_prompt with the diff left out.
ReviewPromptNoDiff(d) ==
    "Review the following code changes and provide feedback:\n\n" \o Fence \o "diff\n"
        \o "\n" \o Fence \o "\n\nProvide your review as JSON with fields:\n"
        \o "- issues: list of {description, severity, file, line}\n"
        \o "- summary: brief overall assessment\n- approved: boolean\n"

\* review_prompt
ReviewPrompt(d) ==
    "Review the following code changes and provide feedback:\n\n" \o Fence \o "diff\n"
        \o d
        \o "\n" \o Fence \o "\n\nProvide your review as JSON with fields:\n"
        \o "- issues: list of {description, severity, file, line}\n"
        \o "- summary: brief overall assessment\n- approved: boolean\n"

\* run_claude has returned to run_review_pipeline: a result that is not ok
\* ends the pipeline, an ok one takes it to capture_git_diff.
ReviewAfterClaude ==
    /\ caller = "run_review_pipeline"
    /\ pc = "done"
    /\ results = <<>>
    /\ results' = <<result[1]>>
    /\ IF ~result[1].ok
       THEN /\ report' = <<[stage |-> "implementation", success |-> FALSE,
                            error |-> result[1].stderr, claude_result |-> result[1]]>>
            /\ pc' = pc
       ELSE /\ pc' = "capture"
            /\ report' = report
    /\ UNCHANGED <<callVars, mcpVars, environ, alive, launchVars, how, now, started_at,
                   killed_at, childVars, readVars, outcome, raised, result,
                   caller, agents, invoked, diff>>

\* capture_git_diff returns and run_codex is called with the review prompt.
CaptureGitDiff(d) ==
    /\ caller = "run_review_pipeline"
    /\ pc = "capture"
    /\ diff' = <<d>>
    /\ Invoke("codex", ReviewPrompt(d), DefaultOptions)
    /\ UNCHANGED <<caller, agents, results, report>>

\* capture_git_diff cannot start git: create_subprocess_exec raises, and
\* the exception leaves the pipeline.
CaptureGitDiffFails ==
    /\ caller = "run_review_pipeline"
    /\ pc = "capture"
    /\ pc' = "raised"
    /\ raised' = "FileNotFoundError"
    /\ UNCHANGED <<callVars, sideVars, environ, alive, launchVars, how, now, started_at,
                   killed_at, childVars, readVars, outcome, result>>

\* run_codex has returned to run_review_pipeline, which returns.
ReviewAfterCodex ==
    /\ caller = "run_review_pipeline"
    /\ pc = "done"
    /\ Len(results) = 1
    /\ Len(invoked) = 2
    /\ results' = Append(results, result[1])
    /\ report' = <<[stage |-> "complete", success |-> TRUE, diff |-> diff[1],
                    claude_result |-> results[1], codex_result |-> result[1]]>>
    /\ UNCHANGED <<callVars, mcpVars, environ, alive, launchVars, pc, how, now, started_at,
                   killed_at, childVars, readVars, outcome, raised, result,
                   caller, agents, invoked, diff>>

\* The caller is entered and makes its first call.
CallerInit ==
    /\ caller \in Callers
    /\ \/ /\ caller = "run_smoke"
          /\ agents \in AgentLists
          /\ via = "run_agent"
          /\ agent = agents[1]
          /\ prompt = SmokePrompt
          /\ options = DefaultOptions
       \/ /\ caller = "run_review_pipeline"
          /\ agents = <<>>
          /\ via = "adapter"
          /\ agent = "claude"
          /\ prompt = "hi"
          /\ options \in {[DefaultOptions EXCEPT !.auto_approve = b] : b \in BOOLEAN}
    /\ cwd = "."
    /\ timeout_s = 1
    /\ environ = BaseEnviron
    /\ alive = 0
    /\ Fresh
    /\ invoked = <<agent>>
    /\ results = <<>>
    /\ diff = <<>>
    /\ report = <<>>
    /\ NoMcp

CallerNext ==
    \/ \E f \in LaunchFaults : LaunchFail(f)
    \/ \E p \in CallerPlans : Launch(p)
    \/ \E s \in Streams : ChildWrite(s)
    \/ \E st \in ExitStatuses : ChildExit(st)
    \/ ChildKilled
    \/ \E s \in Streams : HolderClose(s)
    \/ Tick
    \/ \E s \in Streams, n \in 1..ReadSize : ReadChunk(s, n)
    \/ \E s \in Streams : ReadEOF(s)
    \/ WaitExit
    \/ ReturnNormal
    \/ Timeout
    \/ ReturnTimeout
    \/ \E s \in Streams : StreamFault(s)
    \/ RunAgentUnknown
    \/ AdapterReturn
    \/ SmokeCollect
    \/ ReviewAfterClaude
    \/ \E d \in Diffs : CaptureGitDiff(d)
    \/ CaptureGitDiffFails
    \/ ReviewAfterCodex

CallerSpec == CallerInit /\ [][CallerNext]_vars

(***************************************************************************)
(* check_mcp_server_tools: the doctor starts the MCP server, sends          *)
(* initialize and tools/list over its stdin, reads one line of its stdout  *)
(* for each, and shuts the server down.                                    *)
(***************************************************************************)
MInitOk == "{\"jsonrpc\":\"2.0\",\"id\":1,\"result\":{\"serverInfo\":{\"name\":\"agent-mesh\"}}}"
MInitError == "{\"jsonrpc\":\"2.0\",\"id\":1,\"error\":{\"message\":\"no\"}}"
MToolsAll == "{\"jsonrpc\":\"2.0\",\"id\":2,\"result\":{\"tools\":[{\"name\":\"gemini_run\"},{\"name\":\"claude_run\"},{\"name\":\"codex_exec\"}]}}"
MToolsTwo == "{\"jsonrpc\":\"2.0\",\"id\":2,\"result\":{\"tools\":[{\"name\":\"gemini_run\"},{\"name\":\"claude_run\"}]}}"
MToolsNone == "{\"jsonrpc\":\"2.0\",\"id\":2,\"result\":{}}"
MString == "\"no result\""
MNumber == "5"
MGarbage == "Traceback (most recent call last):"

\* The lines a server, sound or broken, may print in answer to a request.
ServerLines ==
    {MInitOk, MInitError, MToolsAll, MToolsTwo, MToolsNone, MString, MNumber, MGarbage}

JArr(seq) == [t |-> "array", v |-> seq]

\* The tools member of a tools/list result.
ToolList(names) == JArr([k \in 1..Len(names) |-> JObj([name |-> JStr(names[k])])])

\* json.loads(line) in _recv; the line read at end-of-file is empty.
McpLoads(line) ==
    CASE line = MInitOk ->
           JObj([jsonrpc |-> JStr("2.0"), id |-> JNum(1),
                 result |-> JObj([serverInfo |-> JObj([name |-> JStr("agent-mesh")])])])
      [] line = MInitError ->
           JObj([jsonrpc |-> JStr("2.0"), id |-> JNum(1),
                 error |-> JObj([message |-> JStr("no")])])
      [] line = MToolsAll ->
           JObj([jsonrpc |-> JStr("2.0"), id |-> JNum(2),
                 result |-> JObj([tools |-> ToolList(<<"gemini_run", "claude_run", "codex_exec">>)])])
      [] line = MToolsTwo ->
           JObj([jsonrpc |-> JStr("2.0"), id |-> JNum(2),
                 result |-> JObj([tools |-> ToolList(<<"gemini_run", "claude_run">>)])])
      [] line = MToolsNone ->
           JObj([jsonrpc |-> JStr("2.0"), id |-> JNum(2), result |-> JObj(EmptyDict)])
      [] line = MString -> JStr("no result")
      [] line = MNumber -> JNum(5)
      [] OTHER -> JSONDecodeError

\* `key in x`: membership in a dict, substring of a str, element of a list,
\* TypeError for a value that is no container.
In(key, x) ==
    CASE x.t = "object" -> IF HasKey(x, key) THEN "yes" ELSE "no"
      [] x.t = "string" -> IF Contains(x.v, key) THEN "yes" ELSE "no"
      [] x.t = "array" -> IF \E k \in 1..Len(x.v) : x.v[k] = JStr(key) THEN "yes" ELSE "no"
      [] OTHER -> "TypeError"

McpCheck(ok, tools, error) == [ok |-> ok, tools |-> tools, error |-> error]

\* str(e) of the exceptions the handshake can raise.
ExcText(exc) ==
    CASE exc = "JSONDecodeError" -> "Expecting value: line 1 column 1 (char 0)"
      [] exc = "TypeError" -> "argument of type 'int' is not iterable"
      [] exc = "TypeError: str" -> "string indices must be integers, not 'str'"
      [] exc = "KeyError" -> "'tools'"
      [] OTHER -> "Connection lost"

\* except Exception as e: McpCheck(ok=False, tools=[], error=str(e))
Faulted(exc) == McpCheck(FALSE, <<>>, <<ExcText(exc)>>)

\* The order sorted() puts the names of this model in.
ToolOrder == <<"claude_run", "codex_exec", "gemini_run">>

RECURSIVE SortedBy(_, _)
\* sorted(names), for names among those of ToolOrder.
SortedBy(order, names) ==
    IF order = <<>> THEN <<>>
    ELSE SelectSeq(names, LAMBDA n : n = Head(order)) \o SortedBy(Tail(order), names)

Names(seq) == {seq[k] : k \in 1..Len(seq)}

required == {"claude_run", "codex_exec", "gemini_run"}

\* sorted(required - set(tools))
Missing(tools) == SelectSeq(ToolOrder, LAMBDA n : n \in required \ Names(tools))

\* From `init_resp = await _recv()` to the second _send: the McpCheck that
\* ends the try block, or <<>> when tools/list is to be sent.
AfterInit(line) ==
    LET init_resp == McpLoads(line)
    IN  IF init_resp = JSONDecodeError THEN <<Faulted("JSONDecodeError")>>
        ELSE IF In("result", init_resp) = "TypeError" THEN <<Faulted("TypeError")>>
        ELSE IF In("result", init_resp) = "no"
        THEN <<McpCheck(FALSE, <<>>, <<"initialize failed: ", line>>)>>
        ELSE <<>>

\* From `tools_resp = await _recv()` to the end of the try block.
AfterTools(line) ==
    LET tools_resp == McpLoads(line)
    IN  IF tools_resp = JSONDecodeError THEN Faulted("JSONDecodeError")
        ELSE IF In("result", tools_resp) = "TypeError" THEN Faulted("TypeError")
        ELSE IF In("result", tools_resp) = "no"
        THEN McpCheck(FALSE, <<>>, <<"tools/list failed: ", line>>)
        ELSE IF ~IsDict(tools_resp) THEN Faulted("TypeError: str")
        ELSE IF ~IsDict(tools_resp.v.result) THEN Faulted("TypeError: str")
        ELSE IF ~HasKey(tools_resp.v.result, "tools") THEN Faulted("KeyError")
        ELSE LET tools == [k \in 1..Len(tools_resp.v.result.v.tools.v) |->
                              tools_resp.v.result.v.tools.v[k].v.name.v]
             IN  IF Missing(tools) # <<>>
                 THEN McpCheck(FALSE, tools, <<"missing tools: ", Missing(tools)>>)
                 ELSE McpCheck(TRUE, SortedBy(ToolOrder, tools), <<>>)

\* create_subprocess_exec (or Path.cwd() in its arguments) raises: the call
\* stands before the try block, and the exception leaves the function.
McpStartFails ==
    /\ mcp_pc = "start"
    /\ mcp_pc' = "raised"
    /\ mcp_raised' = "FileNotFoundError"
    /\ UNCHANGED <<callVars, environ, alive, launchVars, pc, how, now, started_at,
                   killed_at, childVars, readVars, outcome, raised, result,
                   caller, agents, invoked, results, diff, report,
                   server, stdin_open, sent, server_out, received, check>>

\* The server is started and initialize is sent.
McpStart ==
    /\ mcp_pc = "start"
    /\ mcp_pc' = "initialize"
    /\ server' = "running"
    /\ stdin_open' = TRUE
    /\ sent' = <<"initialize">>
    /\ UNCHANGED <<callVars, environ, alive, launchVars, pc, how, now, started_at,
                   killed_at, childVars, readVars, outcome, raised, result,
                   caller, agents, invoked, results, diff, report,
                   server_out, received, check, mcp_raised>>

\* The server answers a request it has not answered yet.
ServerReply(line) ==
    /\ server = "running"
    /\ server_out = <<>>
    /\ Len(received) < Len(sent)
    /\ server_out' = <<line>>
    /\ UNCHANGED <<callVars, environ, alive, launchVars, pc, how, now, started_at,
                   killed_at, childVars, readVars, outcome, raised, result,
                   caller, agents, invoked, results, diff, report,
                   mcp_pc, server, stdin_open, sent, received, check, mcp_raised>>

\* The server exits, by itself or at the end of its stdin.
ServerExit ==
    /\ server = "running"
    /\ server' = "exited"
    /\ UNCHANGED <<callVars, environ, alive, launchVars, pc, how, now, started_at,
                   killed_at, childVars, readVars, outcome, raised, result,
                   caller, agents, invoked, results, diff, report,
                   mcp_pc, stdin_open, sent, server_out, received, check, mcp_raised>>

\* The line readline() returns: what the server wrote, or the empty line at
\* the end of the stdout of a server that has exited.
Readable == IF server_out # <<>> THEN server_out ELSE IF server = "exited" THEN <<"">> ELSE <<>>

\* The try block ends with the McpCheck c: the finally clause closes stdin
\* and starts the grace wait.
Finish(c) ==
    /\ check' = <<c>>
    /\ stdin_open' = FALSE
    /\ mcp_pc' = "grace"

\* _recv returns the answer to initialize; with a result in it, tools/list
\* is sent, and the drain raises when the pipe to a server that has exited
\* is already known to be lost.
McpInitResponse(lost) ==
    /\ mcp_pc = "initialize"
    /\ Readable # <<>>
    /\ lost => server = "exited"
    /\ received' = IF server_out # <<>> THEN Append(received, server_out[1]) ELSE received
    /\ server_out' = <<>>
    /\ IF AfterInit(Readable[1]) # <<>>
       THEN Finish(AfterInit(Readable[1])[1]) /\ sent' = sent
       ELSE /\ sent' = Append(sent, "tools/list")
            /\ IF lost
               THEN Finish(Faulted("ConnectionResetError"))
               ELSE mcp_pc' = "tools/list" /\ UNCHANGED <<check, stdin_open>>
    /\ UNCHANGED <<callVars, environ, alive, launchVars, pc, how, now, started_at,
                   killed_at, childVars, readVars, outcome, raised, result,
                   caller, agents, invoked, results, diff, report,
                   server, mcp_raised>>

\* _recv returns the answer to tools/list and the try block ends.
McpToolsResponse ==
    /\ mcp_pc = "tools/list"
    /\ Readable # <<>>
    /\ received' = IF server_out # <<>> THEN Append(received, server_out[1]) ELSE received
    /\ server_out' = <<>>
    /\ Finish(AfterTools(Readable[1]))
    /\ UNCHANGED <<callVars, environ, alive, launchVars, pc, how, now, started_at,
                   killed_at, childVars, readVars, outcome, raised, result,
                   caller, agents, invoked, results, diff, report,
                   server, sent, mcp_raised>>

\* wait_for(readline(), timeout_s) times out: the server is silent.
McpTimeout ==
    /\ mcp_pc \in {"initialize", "tools/list"}
    /\ Readable = <<>>
    /\ Finish(McpCheck(FALSE, <<>>, <<"timeout waiting for MCP response">>))
    /\ UNCHANGED <<callVars, environ, alive, launchVars, pc, how, now, started_at,
                   killed_at, childVars, readVars, outcome, raised, result,
                   caller, agents, invoked, results, diff, report,
                   server, sent, server_out, received, mcp_raised>>

\* proc.wait() completes within the grace wait and the function returns.
McpGraceExited ==
    /\ mcp_pc = "grace"
    /\ server = "exited"
    /\ mcp_pc' = "returned"
    /\ UNCHANGED <<callVars, environ, alive, launchVars, pc, how, now, started_at,
                   killed_at, childVars, readVars, outcome, raised, result,
                   caller, agents, invoked, results, diff, report,
                   server, stdin_open, sent, server_out, received, check, mcp_raised>>

\* The grace wait times out: proc.kill(), and the function returns.
McpGraceTimeout ==
    /\ mcp_pc = "grace"
    /\ server = "running"
    /\ server' = "killed"
    /\ mcp_pc' = "returned"
    /\ UNCHANGED <<callVars, environ, alive, launchVars, pc, how, now, started_at,
                   killed_at, childVars, readVars, outcome, raised, result,
                   caller, agents, invoked, results, diff, report,
                   stdin_open, sent, server_out, received, check, mcp_raised>>

\* check_mcp_server_tools is called; no agent is.
McpInit ==
    /\ via = "doctor"
    /\ agent = ""
    /\ cwd = "."
    /\ timeout_s \in 1..MaxTimeout
    /\ prompt = ""
    /\ options = DefaultOptions
    /\ environ = BaseEnviron
    /\ alive = 0
    /\ Fresh
    /\ NoCaller
    /\ mcp_pc = "start"
    /\ server = "none"
    /\ stdin_open = FALSE
    /\ sent = <<>>
    /\ server_out = <<>>
    /\ received = <<>>
    /\ check = <<>>
    /\ mcp_raised = ""

McpNext ==
    \/ McpStartFails
    \/ McpStart
    \/ \E line \in ServerLines : ServerReply(line)
    \/ ServerExit
    \/ \E lost \in BOOLEAN : McpInitResponse(lost)
    \/ McpToolsResponse
    \/ McpTimeout
    \/ McpGraceExited
    \/ McpGraceTimeout

McpSpec == McpInit /\ [][McpNext]_vars

(***************************************************************************)
(* What the claims speak of.                                               *)
(***************************************************************************)
\* The units of a stream that read_stream has taken out of the pipe.
AlreadyRead(s) == SubSeq(written[s], 1, Len(written[s]) - Len(pipe[s]))

\* The stream is at end-of-stream: drained, and every write end is closed.
StreamAtEOF(s) == pipe[s] = <<>> /\ ~writeOpen[s]

\* An exception left run_subprocess itself.
ExecutorRaised == pc = "raised" /\ outcome = <<>>

\* An exception left an adapter after run_subprocess had returned.
AdapterRaised == pc = "raised" /\ outcome # <<>>

\* C1: run_subprocess never raises: on every path it returns a complete
\* outcome instead of propagating an exception.
C1_ExecutorNeverRaises == ~ExecutorRaised

\* C2: on the timeout path run_subprocess returns exit code -1, stdout equal
\* to what had been read from the child's stdout, and stderr equal to what had
\* been read from its stderr followed by the annotation naming timeout_s; what
\* had been read is never replaced by empty output.
C2_TimeoutKeepsPartialOutput ==
    how = "timeout" =>
        /\ outcome[1].exit_code = -1
        /\ outcome[1].stdout = Decode(AlreadyRead("stdout"))
        /\ outcome[1].stderr =
              Decode(AlreadyRead("stderr"))
                 \o <<"\n\n[TIMEOUT after " \o ToString(timeout_s)
                        \o "s - partial output above]">>

\* C2's case: a timeout after something was read from both streams.
C2_Witness ==
    /\ how = "timeout"
    /\ AlreadyRead("stdout") # <<>>
    /\ AlreadyRead("stderr") # <<>>

\* C3 as claimed: on the timeout path the returned stdout, and the returned
\* stderr before the annotation, are exactly what the child had written to
\* that stream up to its termination, and the exit code is -1.
C3_TimeoutLosesNothing ==
    how = "timeout" =>
        /\ outcome[1].exit_code = -1
        /\ outcome[1].stdout = Decode(written["stdout"])
        /\ outcome[1].stderr = Append(Decode(written["stderr"]), TimeoutMsg(timeout_s))

\* C3 as amended: on the timeout path the returned stdout, and the returned
\* stderr before the annotation, are a prefix of what the child had written
\* to that stream up to its termination, nothing in it twice; what is missing
\* is exactly what was still unread in the pipe, and the exit code is -1.
C3_TimeoutLosesOnlyUnread ==
    how = "timeout" =>
        LET out == outcome[1].stdout
            err == SubSeq(outcome[1].stderr, 1, Len(outcome[1].stderr) - 1)
        IN  /\ outcome[1].exit_code = -1
            /\ IsPrefix(out, Decode(written["stdout"]))
            /\ IsPrefix(err, Decode(written["stderr"]))
            /\ Len(out) + Len(pipe["stdout"]) = Len(written["stdout"])
            /\ Len(err) + Len(pipe["stderr"]) = Len(written["stderr"])

\* C3's case: a timeout with part of stdout returned and part of it lost.
C3_Witness ==
    /\ how = "timeout"
    /\ outcome[1].stdout # <<>>
    /\ pipe["stdout"] # <<>>

\* run_subprocess returned on the normal path with everything the child
\* wrote and with the child's own status.
CompleteNormalReturn ==
    /\ how = "normal"
    /\ outcome[1].stdout = plan[1].stdout
    /\ outcome[1].stderr = plan[1].stderr
    /\ outcome[1].exit_code = returncode[1]

\* C4: a child that writes a finite text to either or both streams, in any
\* order and beyond what a pipe holds, and then exits (no descendant keeping
\* a pipe open) is never blocked for ever on a full pipe: unless the timeout
\* fires or a read fails, run_subprocess eventually returns the child's exit
\* code with all the output.
C4_NoPipeDeadlock ==
    [](pc = "waiting" /\ ~plan[1].detach
          => <>(pc \in {"killing", "raised"} \/ CompleteNormalReturn))

\* C4's case: a normal return after the child wrote more to stderr than the
\* pipe holds, and wrote to stdout as well.
C4_Witness ==
    /\ how = "normal"
    /\ Len(written["stderr"]) > PipeCap
    /\ Len(written["stdout"]) > PipeCap

\* C5: a return on the normal path happens only once stdout and stderr are at
\* end-of-stream and the child has exited; a timeout outcome carries exit code
\* -1, is returned only after the deadline, and the handler is entered only
\* with one of the three still pending.
C5_TimeoutCoversCombinedWait ==
    /\ how = "normal" =>
          /\ \A s \in Streams : StreamAtEOF(s)
          /\ ~childAlive
    /\ how = "timeout" =>
          /\ outcome[1].exit_code = -1
          /\ killed_at - started_at >= timeout_s
    /\ pc = "killing" \/ how = "timeout" =>
          \/ \E s \in Streams : ~readerDone[s]
          \/ ~waitDone

\* C5's case: the child had already exited by itself, a stream was still open
\* at the deadline, and the outcome is the timeout outcome.
C5_Witness ==
    /\ how = "timeout"
    /\ waitDone
    /\ returncode = <<0>>
    /\ \E s \in Streams : writeOpen[s]

\* C6: after the timeout the executor waits only a bounded time for the
\* child's teardown, so the call never stays in the timeout handler longer
\* than the grace period.
C6_TeardownIsBounded == pc = "killing" => now - killed_at <= TeardownGrace

\* The exit code C7 gives for each launch fault.
ClaimedLaunchCode(f) ==
    CASE f = "executable missing" -> 127
      [] f = "executable not permitted" -> 126
      [] OTHER -> 1

\* C7: when the child cannot be launched run_subprocess returns 127 for a
\* missing executable, 126 for a denied permission and 1 for an invalid
\* working directory or any other launch fault, with empty stdout and a
\* non-empty stderr; an adapter invoked for a missing executable returns
\* ok=false with exit code 127.
C7_LaunchFailureCodes ==
    how = "launch" =>
        /\ outcome[1].exit_code = ClaimedLaunchCode(fault)
        /\ outcome[1].stdout = <<>>
        /\ outcome[1].stderr # <<>>
        /\ pc # "raised"
        /\ pc = "done" /\ fault = "executable missing" =>
              ~result[1].ok /\ result[1].exit_code = 127

\* C8: no adapter raises: whatever exit code and stdout the executor returned,
\* run_claude, run_codex and run_gemini return an AgentResult.
C8_AdaptersNeverRaise == ~AdapterRaised

\* The parsed payload carries an agent-reported error: is_error true for
\* Claude, an error field for Gemini, an event with an error field for Codex.
ReportsError(name, exit_code, stdout) ==
    CASE name = "claude" ->
           /\ IsDict(JsonLoads(stdout))
           /\ HasKey(JsonLoads(stdout), "is_error")
           /\ Truthy(JsonLoads(stdout).v.is_error)
      [] name = "gemini" ->
           /\ exit_code = 0
           /\ IsDict(JsonLoads(stdout))
           /\ HasKey(JsonLoads(stdout), "error")
      [] OTHER ->
           \E i \in 1..Len(stdout) :
              /\ IsDict(JsonLoadsLine(stdout[i]))
              /\ HasKey(JsonLoadsLine(stdout[i]), "error")

\* C9: for each adapter the returned ok is true exactly when the exit code is
\* 0 and the parsed payload carries no agent-reported error.
C9_OkIffExitZeroAndNoError ==
    pc = "done" /\ agent \in KnownAgents =>
        (result[1].ok <=>
            /\ outcome[1].exit_code = 0
            /\ ~ReportsError(agent, outcome[1].exit_code, outcome[1].stdout))

\* C10: in every AgentResult ok=true implies exit_code=0: no launch failure,
\* timeout, non-zero exit or unknown-agent result is reported with ok=true.
C10_OkImpliesExitZero ==
    result # <<>> /\ result[1].ok =>
        /\ result[1].exit_code = 0
        /\ result[1].agent # "unknown"
        /\ how = "normal"
        /\ returncode = <<0>>

\* C10's case: an adapter has returned ok=true.
C10_Witness == result # <<>> /\ result[1].ok /\ result[1].agent = "gemini"

\* str.lower() of one character of the messages.
LowerChar(c) ==
    CASE c = "U" -> "u"
      [] c = "M" -> "m"
      [] c = "C" -> "c"
      [] OTHER -> c

RECURSIVE Lower(_)
\* str.lower()
Lower(str) ==
    IF Len(str) = 0 THEN ""
    ELSE LowerChar(SubSeq(str, 1, 1)) \o Lower(SubSeq(str, 2, Len(str)))

\* C11: run_agent with a name that is not exactly "claude", "codex" or
\* "gemini" launches no child and does not raise; it returns a result with
\* agent "unknown", ok false, exit code 1, empty stdout and a stderr that
\* contains "unknown agent" when lowered.
C11_UnknownAgentIsReported ==
    via = "run_agent" /\ agent \notin {"claude", "codex", "gemini"} =>
        /\ pc \in {"dispatch", "done"}
        /\ executorCalls = 0 /\ children = 0 /\ plan = <<>>
        /\ raised = ""
        /\ pc = "done" =>
              /\ result[1].agent = "unknown"
              /\ ~result[1].ok
              /\ result[1].exit_code = 1
              /\ result[1].stdout = <<>>
              /\ \E i \in 1..Len(result[1].stderr) :
                    Contains(Lower(result[1].stderr[i]), "unknown agent")

\* A call with the name of an agent in another case has returned.
C11_Witness == pc = "done" /\ agent = "Claude" /\ result # <<>>

\* C12: a call launches one child and is never retried: an adapter calls
\* run_subprocess exactly once whatever the outcome, that call starts one
\* child (none when the launch itself fails), and a run_agent call with an
\* unknown name calls it not at all.
C12_OneChildPerCall ==
    /\ executorCalls <= 1
    /\ children <= executorCalls
    /\ agent \in KnownAgents /\ pc # "dispatch" =>
          /\ executorCalls = 1
          /\ children = IF how = "launch" THEN 0 ELSE 1
    /\ agent \notin KnownAgents => executorCalls = 0 /\ children = 0

\* An adapter has returned the result of a call that timed out.
C12_Witness == pc = "done" /\ how = "timeout" /\ children = 1

\* C13: the stdout truncation rule is idempotent: applied to the stdout an
\* adapter returned (the rule applied once to the captured stdout), it gives
\* that same text again.
C13_TruncationIsIdempotent ==
    pc = "done" /\ agent \in KnownAgents =>
        Truncate(result[1].stdout) = result[1].stdout

\* C14: the stdout of an adapter's result is the captured stdout unchanged
\* when that is within the cap, and otherwise its first MaxChars characters
\* followed by the marker that gives the number of characters left out, the
\* captured length minus the cap.
C14_StdoutCutWithCount ==
    pc = "done" /\ agent \in KnownAgents =>
        LET captured == outcome[1].stdout
            returned == result[1].stdout
        IN  IF Len(captured) <= MaxChars
            THEN returned = captured
            ELSE /\ Len(returned) = MaxChars + 3
                 /\ SubSeq(returned, 1, MaxChars) = SubSeq(captured, 1, MaxChars)
                 /\ SubSeq(returned, MaxChars + 1, MaxChars + 3) =
                       <<"\n... [truncated ", ToString(Len(captured) - MaxChars), " chars]">>

\* An adapter has returned a result whose captured stdout was more than one
\* character over the cap.
C14_Witness ==
    pc = "done" /\ agent \in KnownAgents /\ Len(outcome[1].stdout) > MaxChars + 1

\* C15: the stderr of an adapter's result follows the policy of stdout: a
\* captured stderr over the cap comes back as its first MaxChars characters
\* and the marker, so that its length is bounded.
C15_StderrCutLikeStdout ==
    pc = "done" /\ agent \in KnownAgents =>
        LET captured == outcome[1].stderr
        IN  Len(captured) > MaxChars =>
                result[1].stderr =
                    SubSeq(captured, 1, MaxChars)
                        \o <<"\n... [truncated ", ToString(Len(captured) - MaxChars), " chars]">>

\* The lines of a str value of the payload.
TextOf(v) == IF v.t = "text" THEN v.v ELSE <<v.v>>

\* The text is within the cap, or is MaxChars characters and a marker.
IsCut(text) ==
    \/ Len(text) <= MaxChars
    \/ /\ Len(text) = MaxChars + 3
       /\ text[MaxChars + 1] = "\n... [truncated "
       /\ text[MaxChars + 3] = " chars]"

\* C16: every final-answer or raw-output string of the structured payload
\* (result and raw_output of Claude, response of Codex and of Gemini) has
\* been cut to the cap plus marker, whether the parse succeeded or failed.
C16_AnswersAreCut ==
    pc = "done" /\ agent \in KnownAgents =>
        \A k \in {"result", "raw_output", "response"} \cap DOMAIN result[1].structured :
            result[1].structured[k].t \in {"string", "text"} =>
                IsCut(TextOf(result[1].structured[k]))

\* The lines of a text that parse as JSON, parsed.
ParsedLines(text) ==
    LET ok == SelectSeq(text, LAMBDA l : JsonLoadsLine(l) # JSONDecodeError)
    IN  [i \in 1..Len(ok) |-> JsonLoadsLine(ok[i])]

\* An event of type "item.completed" whose item has type "agent_message" and
\* a text field.
IsAgentMessage(e) ==
    /\ IsDict(e) /\ HasKey(e, "type") /\ e.v.type = JStr("item.completed")
    /\ HasKey(e, "item") /\ IsDict(e.v.item)
    /\ HasKey(e.v.item, "type") /\ e.v.item.v.type = JStr("agent_message")
    /\ HasKey(e.v.item, "text")

\* The agent messages among the parsed lines, in order.
AgentMessages(text) == SelectSeq(ParsedLines(text), IsAgentMessage)

\* C17: given any non-blank JSON-Lines stdout the Codex adapter returns a
\* result (lines that do not parse are skipped), whose event_count is the
\* number of lines that parsed as JSON and whose response is the text of the
\* last parsed agent message; nothing else of the events is kept.
C17_CodexLastMessage ==
    /\ agent = "codex"
    /\ pc \in {"done", "raised"}
    /\ outcome # <<>>
    /\ ~IsBlank(outcome[1].stdout)
    => /\ pc = "done"
       /\ DOMAIN result[1].structured \subseteq {"response", "event_count"}
       /\ "event_count" \in DOMAIN result[1].structured
       /\ result[1].structured["event_count"] = JNum(Len(ParsedLines(outcome[1].stdout)))
       /\ LET msgs == AgentMessages(outcome[1].stdout)
          IN  msgs # <<>> =>
                /\ "response" \in DOMAIN result[1].structured
                /\ result[1].structured["response"] = msgs[Len(msgs)].v.item.v.text

\* The keys run_claude may copy from the parsed object.
ClaudeWhitelist == {"result", "is_error", "usage"}

\* C18: the Claude adapter returns a result whose structured payload is, when
\* stdout parses as a JSON object, exactly the keys result, is_error and usage
\* that the object has, with the object's values, and whose usage counters
\* are the object's input_tokens and output_tokens; when non-blank stdout
\* does not parse, exactly raw_output with the cut excerpt; when stdout is
\* blank, empty.
C18_ClaudeWhitelist ==
    /\ agent = "claude"
    /\ pc \in {"done", "raised"}
    /\ outcome # <<>>
    => LET out == outcome[1].stdout
           data == JsonLoads(out)
       IN  /\ IsBlank(out) =>
                pc = "done" /\ DOMAIN result[1].structured = {}
           /\ ~IsBlank(out) /\ data = JSONDecodeError =>
                /\ pc = "done"
                /\ DOMAIN result[1].structured = {"raw_output"}
                /\ IsCut(result[1].structured["raw_output"].v)
                /\ IsPrefix(SubSeq(result[1].structured["raw_output"].v, 1,
                                   Min(MaxChars, Len(out))), out)
           /\ ~IsBlank(out) /\ IsDict(data) =>
                /\ pc = "done"
                /\ DOMAIN result[1].structured = ClaudeWhitelist \cap DOMAIN data.v
                /\ \A k \in DOMAIN result[1].structured :
                      result[1].structured[k] = data.v[k]
                /\ HasKey(data, "usage") =>
                      /\ result[1].usage.input_tokens = <<data.v.usage.v.input_tokens.v>>
                      /\ result[1].usage.output_tokens = <<data.v.usage.v.output_tokens.v>>

\* C19: whenever the stdout the Gemini adapter gets is non-blank and does not
\* parse as JSON, whatever the exit code, the payload's response is the whole
\* trimmed stdout (cut to the cap): the raw text is never missing.
C19_GeminiPlainTextFallback ==
    /\ agent = "gemini"
    /\ pc \in {"done", "raised"}
    /\ outcome # <<>>
    /\ ~IsBlank(outcome[1].stdout)
    /\ JsonLoads(outcome[1].stdout) = JSONDecodeError
    => LET trimmed == Strip(outcome[1].stdout)
       IN  /\ pc = "done"
           /\ "response" \in DOMAIN result[1].structured
           /\ result[1].structured["response"].t = "text"
           /\ IsCut(result[1].structured["response"].v)
           /\ SubSeq(result[1].structured["response"].v, 1, Min(MaxChars, Len(trimmed)))
                 = SubSeq(trimmed, 1, Min(MaxChars, Len(trimmed)))

\* C20: every result returned to a caller, through run_agent or through an
\* MCP tool, carries in cwd the absolute resolution of the directory the
\* caller asked for, and the child was started in that directory.
C20_CwdIsResolved ==
    /\ child_cwd # <<>> => child_cwd[1] = Resolve(cwd)
    /\ pc = "done" => IsAbs(result[1].cwd) /\ result[1].cwd = Resolve(cwd)

\* C24: an outcome has exit code -1 exactly when the timeout elapsed: a child
\* that ends by itself, by exit or by a signal, before the timeout never
\* gives -1.
C24_MinusOneIffTimeout ==
    outcome # <<>> => (outcome[1].exit_code = -1 <=> how = "timeout")

\* The units read_stream has appended to the list of a stream, in order.
Buffered(s) == Join(chunks[s])

\* C27: each stream has a buffer of its own, in order: what has been read of
\* a stream is, unit by unit and nothing twice, the beginning of what the
\* child wrote to that stream and holds nothing of the other stream; the
\* returned stdout and stderr are those buffers, and on a return without
\* timeout each is all that the child wrote to its stream.
C27_PrivateOrderedBuffers ==
    /\ \A s \in Streams :
          /\ Len(Buffered(s)) <= Len(written[s])
          /\ \A k \in 1..Len(Buffered(s)) :
                /\ Buffered(s)[k].s = s
                /\ Buffered(s)[k].i = k
                /\ Buffered(s)[k] = written[s][k]
    /\ how = "timeout" =>
          /\ outcome[1].stdout = Decode(Buffered("stdout"))
          /\ SubSeq(outcome[1].stderr, 1, Len(outcome[1].stderr) - 1)
                = Decode(Buffered("stderr"))
    /\ how = "normal" =>
          /\ outcome[1].stdout = Decode(written["stdout"])
          /\ outcome[1].stderr = Decode(written["stderr"])
          /\ \A s \in Streams : Buffered(s) = written[s]

\* A return without timeout of a call whose child wrote to both streams.
C27_Witness ==
    /\ how = "normal"
    /\ outcome[1].stdout # <<>>
    /\ outcome[1].stderr # <<>>

\* C28: whenever run_subprocess has returned, by the normal path, the
\* timeout path or a launch failure, no child that the call started is still
\* running: a child that was started has been waited for and has a status.
C28_NoChildLeftRunning ==
    outcome # <<>> =>
        /\ ~childAlive
        /\ children > 0 => returncode # <<>>
        /\ how = "launch" => children = 0

\* A return by the timeout path, the child killed and waited for.
C28_Witness == how = "timeout" /\ outcome # <<>> /\ returncode = <<KilledStatus>>

\* The flag that lets each agent run without asking for confirmation.
BypassFlag(name) ==
    CASE name = "claude" -> "--dangerously-skip-permissions"
      [] name = "codex" -> "--dangerously-bypass-approvals-and-sandbox"
      [] OTHER -> "--yolo"

Args(argv) == {argv[k] : k \in 1..Len(argv)}

\* C21: every command line built for an agent contains that agent's
\* bypass flag, under every combination of the adapter's options
\* (auto_approve=False included).
C21_BypassFlagAlwaysSet == cmd # <<>> => BypassFlag(agent) \in Args(cmd)

\* The keys of the env argument (none for None).
OverrideKeys == IF overrides = <<>> THEN {} ELSE DOMAIN overrides[1]

C22_Merged ==
    child_env # <<>> =>
        /\ DOMAIN child_env[1] = DOMAIN environ \cup OverrideKeys
        /\ \A k \in OverrideKeys : child_env[1][k] = overrides[1][k]
        /\ \A k \in DOMAIN environ \ OverrideKeys : child_env[1][k] = environ[k]

\* C22: the environment handed to the child is the parent's with the
\* overrides on top (the override wins on a collision, every other parent
\* variable is passed as it is), and no step of a call changes the parent's
\* own environment.
C22_EnvMergedOnACopy == []C22_Merged /\ [][environ' = environ]_vars

\* A launch with an override that collides with a different parent value.
C22_Witness ==
    /\ child_env # <<>>
    /\ \E k \in OverrideKeys \cap DOMAIN environ : overrides[1][k] # environ[k]
    /\ \E k \in DOMAIN environ : k \notin OverrideKeys

BedrockKeys == {"CLAUDE_CODE_USE_BEDROCK", "AWS_PROFILE", "AWS_REGION"}

\* The parent's environment asks for Bedrock.
ParentWantsBedrock ==
    "CLAUDE_CODE_USE_BEDROCK" \in DOMAIN environ /\ environ.CLAUDE_CODE_USE_BEDROCK = "1"

\* C23: the Claude adapter overrides the three Bedrock variables exactly
\* when use_bedrock is true or the parent has CLAUDE_CODE_USE_BEDROCK = "1";
\* ANTHROPIC_MODEL is the model option when one is given, whatever the
\* parent has; with no option and none of the variables in the parent, the
\* executor gets no overrides at all.
C23_ClaudeOverridesOnlyWhenAsked ==
    (agent = "claude" /\ cmd # <<>>) =>
        /\ (options.use_bedrock \/ ParentWantsBedrock) => BedrockKeys \subseteq OverrideKeys
        /\ ~(options.use_bedrock \/ ParentWantsBedrock) => BedrockKeys \cap OverrideKeys = {}
        /\ options.model # <<>> =>
              /\ "ANTHROPIC_MODEL" \in OverrideKeys
              /\ overrides[1].ANTHROPIC_MODEL = options.model[1]
        /\ ( /\ ~options.use_bedrock
             /\ options.model = <<>>
             /\ options.aws_profile = <<>>
             /\ options.aws_region = <<>>
             /\ DOMAIN environ \cap ({"CLAUDE_CODE_USE_BEDROCK"} \cup ClaudePassThrough) = {} )
           => overrides = <<>>

\* Claude launched with a model option against a parent that names another
\* model, and with Bedrock asked for by the parent alone.
C23_Witness ==
    /\ agent = "claude"
    /\ cmd # <<>>
    /\ options.model # <<>>
    /\ "ANTHROPIC_MODEL" \in DOMAIN environ
    /\ environ.ANTHROPIC_MODEL # options.model[1]
    /\ ~options.use_bedrock
    /\ ParentWantsBedrock

\* C26: a RunConfig made from a prompt alone has cwd ".", timeout_s 120,
\* output_format "json" and an empty env.
C26_RunConfigDefaults ==
    LET config == RunConfig(prompt)
    IN  /\ config.cwd = "."
        /\ config.timeout_s = 120
        /\ config.output_format = "json"
        /\ config.env = EmptyEnv

\* The pipeline has returned.
PipelineReturned == caller = "run_review_pipeline" /\ report # <<>>

\* C25: in run_review_pipeline Claude is invoked first; a Claude result that
\* is not ok ends the pipeline at stage "implementation" with success false
\* and Claude's stderr as the error, with no diff captured and Codex never
\* invoked; otherwise the diff is captured after Claude's result and before
\* Codex is invoked, Codex's task holds the diff as captured, and the
\* pipeline returns stage "complete" with success true, the diff and both
\* results, whether Codex's result is ok or not.
C25_ReviewIsAStrictSequence ==
    caller = "run_review_pipeline" =>
        /\ invoked \in {<<"claude">>, <<"claude", "codex">>}
        /\ (results # <<>> /\ ~results[1].ok) =>
              /\ diff = <<>>
              /\ invoked = <<"claude">>
              /\ report = <<[stage |-> "implementation", success |-> FALSE,
                             error |-> results[1].stderr,
                             claude_result |-> results[1]]>>
        /\ diff # <<>> => (results # <<>> /\ results[1].ok)
        /\ Len(invoked) = 2 =>
              /\ diff # <<>>
              /\ cmd # <<>> =>
                    /\ cmd[1] = "codex"
                    /\ Contains(cmd[Len(cmd)], Fence \o "diff\n" \o diff[1] \o "\n" \o Fence)
        /\ (cmd # <<>> /\ cmd[1] = "codex") => diff # <<>>
        /\ (PipelineReturned /\ results[1].ok) =>
              /\ Len(results) = 2
              /\ report = <<[stage |-> "complete", success |-> TRUE, diff |-> diff[1],
                             claude_result |-> results[1],
                             codex_result |-> results[2]]>>
        /\ Len(results) = 2 => PipelineReturned

\* The pipeline returned "complete" with a diff that is not empty and a
\* Codex result that is not ok.
C25_Witness ==
    /\ PipelineReturned
    /\ report[1].stage = "complete"
    /\ diff # <<"">>
    /\ ~results[2].ok

\* The invocations of a caller follow one another, one child at a time.
Sequential ==
    /\ alive <= 1
    /\ Len(invoked) - Len(results) \in {0, 1}
    /\ alive > 0 => Len(results) = Len(invoked) - 1
    /\ caller = "run_smoke" =>
          /\ invoked = SubSeq(agents, 1, Len(invoked))
          /\ report # <<>> => invoked = agents

\* The agent of the current invocation failed or timed out.
AgentFailed == outcome # <<>> /\ outcome[1].exit_code # 0

\* C29: a caller invokes its agents one after another: at most one agent
\* child is alive at any moment, an invocation starts only when the one
\* before has returned its result, run_smoke follows the order of its
\* agents argument, and an agent that failed or timed out does not end
\* run_smoke while agents are left to invoke.
C29_CallersAreSequential ==
    /\ Sequential
    /\ (caller = "run_smoke" /\ AgentFailed /\ Len(invoked) < Len(agents)) => pc # "raised"

\* The k-th line read is a JSON-RPC response with a result member.
HasResult(k) ==
    /\ k <= Len(received)
    /\ IsDict(McpLoads(received[k]))
    /\ HasKey(McpLoads(received[k]), "result")

\* tools/list is sent only after an initialize response with a result, and
\* ok is true only when both responses have a result and the tools named
\* include the three.
Handshake ==
    /\ Len(sent) = 2 => HasResult(1)
    /\ (check # <<>> /\ check[1].ok) =>
          /\ HasResult(1)
          /\ HasResult(2)
          /\ required \subseteq Names(check[1].tools)

\* No exception leaves the check, and a check that is not ok has an error.
FaultsAreReported ==
    /\ mcp_raised = ""
    /\ (check # <<>> /\ ~check[1].ok) => check[1].error # <<>>

\* When the check has returned, stdin is closed and the server has exited
\* or has been killed.
CleansUp == mcp_pc = "returned" => (~stdin_open /\ server \in {"exited", "killed"})

\* C30: check_mcp_server_tools sends tools/list only after an initialize
\* response with a result; it reports ok only if both responses have a
\* result and the tools include claude_run, codex_exec and gemini_run; a
\* timeout or any other fault gives ok false with an error text and never an
\* exception; and when it returns the server's stdin is closed and the
\* server has exited within the grace wait or has been killed.
C30_HandshakeAndCleanup == Handshake /\ FaultsAreReported /\ CleansUp
====
